---- MODULE Spec2Model ----
(***************************************************************************)
(* Hardware price oracle service (carbearnara/hardex, oracle-service).     *)
(*                                                                         *)
(* State machine of the price aggregator (fan-out, MAD outlier filter,     *)
(* median, TWAP, per-source collapse, last-price store), the scheduler of  *)
(* main() (initial fetch, the two setInterval loops) and the HTTP routes   *)
(* that read the store.                                                    *)
(*                                                                         *)
(* Numbers.  Prices are exact integers counted in half dollars (a price    *)
(* of 10 is USD 5.00); adapter listings are even, so the mean of the two   *)
(* middle values of a median is exact.  A TWAP is a fraction kept in       *)
(* lowest terms as [num, den].  Time is the value of Date.now().           *)
(***************************************************************************)
EXTENDS Integers, Sequences, FiniteSets, TLC

VARIABLES
  now,            \* Date.now()
  adapters,       \* PriceAggregator.adapters: the adapter names, in order
  supabase,       \* whether initSupabase() returned a client
  lastPrices,     \* PriceAggregator.lastPrices: asset -> AggregatedPrice or Null
  observations,   \* TWAPCalculator.observations: asset -> list of {price, timestamp}
  mainPc,         \* position of main()
  hwTimer,        \* updateInterval: armed or not
  hwNextFire,     \* earliest time the armed hardware timer fires next
  hwTicks,        \* hardware tick bodies in flight: position -> how many await there
  refreshCalls,   \* POST /refresh handlers in flight: position -> how many
  rentalTimer,    \* rentalUpdateInterval: armed or not
  rentalNextFire, \* earliest time the armed rental timer fires next
  rentalTicks,    \* rental tick bodies in flight: await point -> how many
  lastRound,      \* the round made by the most recent step, if it was an updatePrice: its
                  \* inputs, those of the round right before it, the record it replaced
                  \* and the PriceUpdate it returned
  reply,          \* the HTTP reply sent by the most recent step, or Null
  priced,         \* history: the assets for which some round has yielded an observation
  rentalCache,    \* rentalCache of api/rental.ts: Null or {data, timestamp}
  rentalFetches,  \* GET /rental/prices handlers awaiting getAllPriceStats: how many
  call,           \* the most recent call of a library function on its own, outside a
                  \* round: its function, arguments and result; Null before the first
  feed,           \* the storage of the HardwarePriceFeed contract the service feeds
  inFlight        \* the updatePrice calls awaiting their fetches, when they are followed
                  \* one by one: in the order their fetches started, each with the time
                  \* of the start and whether a call started later has since installed

vars == <<now, adapters, supabase, lastPrices, observations, mainPc, hwTimer,
          hwNextFire, hwTicks, refreshCalls, rentalTimer, rentalNextFire,
          rentalTicks, lastRound, reply, priced, rentalCache, rentalFetches, call,
          feed, inFlight>>

-----------------------------------------------------------------------------
(* Bounds of the model *)

\* the clock stops advancing here
MaxTime == 3
\* config.twapWindowMs, in clock units: the last instant of the model is the
\* first at which an observation made at time 0 has left the window
windowMs == MaxTime - 1
\* config.updateIntervalMs, in clock units
updateIntervalMs == 1
\* RENTAL_UPDATE_INTERVAL_MS, in clock units
RENTAL_UPDATE_INTERVAL_MS == 2
\* listings one adapter returns in one call, at most
MaxListings == 3
\* observations one round collects over all adapters, at most
MaxObs == MaxListings
\* tick bodies of one loop in flight at once, at most
MaxInFlight == 2
\* CACHE_TTL_MS of api/rental.ts, in clock units
CACHE_TTL_MS == 2
\* observations of one asset inside one window, at most: a round waits while
\* the window is full
MaxHeld == windowMs

-----------------------------------------------------------------------------
(* Catalog and configuration *)

Null == [null |-> TRUE]

AssetIdSchema ==
  <<"GPU_RTX4090", "GPU_RTX4080", "GPU_RTX3090", "RAM_DDR5_32", "RAM_DDR5_64">>

\* the catalog the model runs the service with: the first asset of the schema
\* (the assets share no state: one map entry and one observation list each)
ASSET_IDS == <<AssetIdSchema[1]>>

Assets == {ASSET_IDS[i] : i \in 1..Len(ASSET_IDS)}

\* listing prices the adapters return (half dollars, even); the adapters drop
\* listings whose price is not positive
ObsPrices == {10, 12}

createScraperAdapters ==
  <<"newegg-scraper", "bestbuy-scraper", "amazon-scraper", "bhphoto-scraper">>

createMockAdapters == <<"mock">>

\* the API adapters, before the isAvailable() filter
createAllAdapters == <<"ebay", "amazon", "bestbuy">>

RECURSIVE SelectSeqIn(_, _)
SelectSeqIn(s, S) ==
  IF s = <<>> THEN <<>>
  ELSE (IF Head(s) \in S THEN <<Head(s)>> ELSE <<>>) \o SelectSeqIn(Tail(s), S)

\* createAdapters(config): the API adapters whose isAvailable() holds
createAdapters(available) == SelectSeqIn(createAllAdapters, available)

\* main(): the adapter list for a mode and a set of configured API adapters
SelectAdapters(mode, available) ==
  IF mode = "scrape" THEN createScraperAdapters
  ELSE IF mode = "demo" THEN createMockAdapters
  ELSE IF Len(createAdapters(available)) = 0 THEN createMockAdapters
  ELSE createAdapters(available)

-----------------------------------------------------------------------------
(* outlier.ts *)

Abs(x) == IF x < 0 THEN -x ELSE x

RECURSIVE Insert(_, _)
Insert(x, s) ==
  IF s = <<>> THEN <<x>>
  ELSE IF x < Head(s) THEN <<x>> \o s
  ELSE <<Head(s)>> \o Insert(x, Tail(s))

\* [...values].sort((a, b) => a - b)
RECURSIVE SortNum(_)
SortNum(s) == IF s = <<>> THEN <<>> ELSE Insert(Head(s), SortNum(Tail(s)))

\* median with the halving of the even case left out
median_Sum(values) ==
  IF Len(values) = 0 THEN 0
  ELSE LET sorted == SortNum(values)
           mid == Len(sorted) \div 2
       IN IF Len(sorted) % 2 = 0
          THEN sorted[mid] + sorted[mid + 1]
          ELSE sorted[mid + 1]

median(values) ==
  IF Len(values) = 0 THEN 0
  ELSE LET sorted == SortNum(values)
           mid == Len(sorted) \div 2   \* 0-based index of the code
       IN IF Len(sorted) % 2 = 0
          THEN (sorted[mid] + sorted[mid + 1]) \div 2
          ELSE sorted[mid + 1]

medianAbsoluteDeviation(values) ==
  IF Len(values) = 0 THEN 0
  ELSE LET med == median(values)
       IN median([i \in 1..Len(values) |-> Abs(values[i] - med)])

RECURSIVE SelectPoints_NoFallback(_, _, _, _)
\* effectiveMad = mad even when mad is 0: the quotient is then NaN or Infinity
\* and nothing is kept
SelectPoints_NoFallback(prices, med, mad, threshold) ==
  IF prices = <<>> THEN <<>>
  ELSE LET p == Head(prices)
           keep == /\ mad # 0
                   /\ Abs(p.price - med) * 10000 <= threshold * 14826 * mad
       IN (IF keep THEN <<p>> ELSE <<>>)
          \o SelectPoints_NoFallback(Tail(prices), med, mad, threshold)

RECURSIVE SelectPoints_Inverted(_, _, _, _)
\* the filter with the comparison inverted: the outliers are the ones kept
SelectPoints_Inverted(prices, med, mad, threshold) ==
  IF prices = <<>> THEN <<>>
  ELSE LET p == Head(prices)
           keep == IF mad = 0
                   THEN med > 0 /\ Abs(p.price - med) * 1000000 > threshold * 14826 * med
                   ELSE Abs(p.price - med) * 10000 > threshold * 14826 * mad
       IN (IF keep THEN <<p>> ELSE <<>>)
          \o SelectPoints_Inverted(Tail(prices), med, mad, threshold)

RECURSIVE SelectPoints(_, _, _, _)
\* prices.filter(p => |p.price - med| / (1.4826 * effectiveMad) <= threshold),
\* with effectiveMad = mad, or med * 0.01 when mad = 0, cross-multiplied; prices
\* are not negative, and when med and mad are both 0 the quotient is NaN (0 / 0),
\* which is not <= threshold
SelectPoints(prices, med, mad, threshold) ==
  IF prices = <<>> THEN <<>>
  ELSE LET p == Head(prices)
           keep == IF mad = 0
                   THEN /\ med > 0
                        /\ Abs(p.price - med) * 1000000 <= threshold * 14826 * med
                   ELSE Abs(p.price - med) * 10000 <= threshold * 14826 * mad
       IN (IF keep THEN <<p>> ELSE <<>>) \o SelectPoints(Tail(prices), med, mad, threshold)

filterOutliers(prices) ==
  IF Len(prices) < 3 THEN prices
  ELSE LET values == [i \in 1..Len(prices) |-> prices[i].price]
       IN SelectPoints(prices, median(values), medianAbsoluteDeviation(values), 3)

-----------------------------------------------------------------------------
(* twap.ts *)

RECURSIVE GCD(_, _)
GCD(a, b) == IF b = 0 THEN a ELSE GCD(b, a % b)

\* the number num/den in lowest terms (den > 0)
Frac(num, den) ==
  LET g == GCD(Abs(num), den) IN [num |-> num \div g, den |-> den \div g]

FracOfInt(p) == [num |-> p, den |-> 1]

RECURSIVE SelectObs(_, _)
SelectObs(obs, cutoff) ==
  IF obs = <<>> THEN <<>>
  ELSE (IF Head(obs).timestamp >= cutoff THEN <<Head(obs)>> ELSE <<>>)
       \o SelectObs(Tail(obs), cutoff)

\* prune with a cutoff one clock unit too early
prune_Late(obs, t) == SelectObs(obs, t - windowMs - 1)

\* prune(assetId) at time t: the list kept for the asset
prune(obs, t) == SelectObs(obs, t - windowMs)

\* addObservation(assetId, price) at time t (timestamp defaults to Date.now())
addObservation(obs, price, t) == prune(Append(obs, [price |-> price, timestamp |-> t]), t)

RECURSIVE InsertObs(_, _)
InsertObs(o, s) ==
  IF s = <<>> THEN <<o>>
  ELSE IF o.timestamp < Head(s).timestamp THEN <<o>> \o s
  ELSE <<Head(s)>> \o InsertObs(o, Tail(s))

\* [...obs].sort((a, b) => a.timestamp - b.timestamp), stable
RECURSIVE SortObs(_)
SortObs(s) ==
  IF s = <<>> THEN <<>>
  ELSE InsertObs(s[Len(s)], SortObs(SubSeq(s, 1, Len(s) - 1)))

RECURSIVE PairSum(_, _, _)
\* the loop over adjacent pairs: <<weightedSum, totalWeight>> from index i on
PairSum(sorted, i, acc) ==
  IF i >= Len(sorted) THEN acc
  ELSE LET duration == sorted[i + 1].timestamp - sorted[i].timestamp
       IN PairSum(sorted, i + 1,
                  <<acc[1] + sorted[i].price * duration, acc[2] + duration>>)

\* getTWAP without the extension of the last observation to the current time
getTWAP_NoTail(pruned, t) ==
  IF Len(pruned) = 0 THEN Null
  ELSE IF Len(pruned) = 1 THEN FracOfInt(pruned[1].price)
  ELSE LET sorted == SortObs(pruned)
           sums == PairSum(sorted, 1, <<0, 0>>)
           lastObs == sorted[Len(sorted)]
       IN IF sums[2] = 0 THEN FracOfInt(lastObs.price)
          ELSE Frac(sums[1], sums[2])

\* getTWAP with the time of the last observation left out of the total weight
getTWAP_TailNotCounted(pruned, t) ==
  IF Len(pruned) = 0 THEN Null
  ELSE IF Len(pruned) = 1 THEN FracOfInt(pruned[1].price)
  ELSE LET sorted == SortObs(pruned)
           sums == PairSum(sorted, 1, <<0, 0>>)
           lastObs == sorted[Len(sorted)]
           lastDuration == t - lastObs.timestamp
           weightedSum == IF lastDuration > 0
                          THEN sums[1] + lastObs.price * lastDuration ELSE sums[1]
       IN IF sums[2] = 0 THEN FracOfInt(lastObs.price)
          ELSE Frac(weightedSum, sums[2])

\* getTWAP(assetId) at time t, on the list pruned at t: Null or a fraction
getTWAP(pruned, t) ==
  IF Len(pruned) = 0 THEN Null
  ELSE IF Len(pruned) = 1 THEN FracOfInt(pruned[1].price)
  ELSE LET sorted == SortObs(pruned)
           sums == PairSum(sorted, 1, <<0, 0>>)
           lastObs == sorted[Len(sorted)]
           lastDuration == t - lastObs.timestamp
           weightedSum == IF lastDuration > 0
                          THEN sums[1] + lastObs.price * lastDuration ELSE sums[1]
           totalWeight == IF lastDuration > 0 THEN sums[2] + lastDuration ELSE sums[2]
       IN IF totalWeight = 0 THEN FracOfInt(lastObs.price)
          ELSE Frac(weightedSum, totalWeight)

-----------------------------------------------------------------------------
(* aggregator.ts *)

\* what one adapter's fetchPrices gave in one round: it rejected, or it returned
\* a list of listing prices
Rejected == [ok |-> FALSE, prices |-> <<>>]

Returned(prices) == [ok |-> TRUE, prices |-> prices]

Listings == UNION {[1..n -> ObsPrices] : n \in 0..MaxListings}

Outcomes == {Rejected} \cup {Returned(l) : l \in Listings}

\* the mock adapter never rejects and returns 3 to 7 listings: the model takes
\* MaxObs of them
MockOutcomes == {Returned(l) : l \in [1..MaxObs -> ObsPrices]}

OutcomesOf(name) == IF name = "mock" THEN MockOutcomes ELSE Outcomes

RECURSIVE SumLen(_, _)
SumLen(r, i) == IF i = 0 THEN 0 ELSE Len(r[i].prices) + SumLen(r, i - 1)

RECURSIVE FetchResultsOf(_)
\* the results of the fan-out over the first i adapters: at most MaxObs
\* listings in all
FetchResultsOf(i) ==
  IF i = 0 THEN {<<>>}
  ELSE {s \in {Append(r, o) : r \in FetchResultsOf(i - 1), o \in OutcomesOf(adapters[i])} :
          SumLen(s, i) <= MaxObs}

\* the results of one fan-out over the adapters
FetchResults == FetchResultsOf(Len(adapters))

\* adapter.fetchPrices(assetId).catch(() => []): the PricePoints of adapter i
PointsOf(r, i) ==
  IF r[i].ok
  THEN [j \in 1..Len(r[i].prices) |-> [price |-> r[i].prices[j], source |-> adapters[i]]]
  ELSE <<>>

RECURSIVE Flat_StopAtRejection(_, _)
\* the fan-out without the catch of a rejection: nothing is collected from the
\* first rejecting adapter on
Flat_StopAtRejection(r, i) ==
  IF i > Len(adapters) THEN <<>>
  ELSE IF ~r[i].ok THEN <<>>
  ELSE PointsOf(r, i) \o Flat_StopAtRejection(r, i + 1)

RECURSIVE Flat(_, _)
\* results.flat(), from adapter i on
Flat(r, i) == IF i > Len(adapters) THEN <<>> ELSE PointsOf(r, i) \o Flat(r, i + 1)

PricesIn(points) == [i \in 1..Len(points) |-> points[i].price]

formatSourceName(name) ==
  CASE name = "mock" -> "Simulated"
    [] name = "bestbuy-scraper" -> "Best Buy"
    [] name = "newegg-scraper" -> "Newegg"
    [] name = "amazon-scraper" -> "Amazon"
    [] name = "bhphoto-scraper" -> "B&H Photo"
    [] name = "ebay" -> "eBay"
    [] name = "amazon" -> "Amazon API"
    [] name = "bestbuy" -> "Best Buy API"
    [] OTHER -> name

RECURSIVE SourceKeys_PerObservation(_, _)
\* one key per observation: the collapse by source left out
SourceKeys_PerObservation(points, seen) ==
  IF points = <<>> THEN <<>>
  ELSE <<Head(points).source>> \o SourceKeys_PerObservation(Tail(points), seen)

RECURSIVE SourceKeys(_, _)
\* the keys of sourceMap, in insertion order
SourceKeys(points, seen) ==
  IF points = <<>> THEN <<>>
  ELSE IF Head(points).source \in seen THEN SourceKeys(Tail(points), seen)
  ELSE <<Head(points).source>>
       \o SourceKeys(Tail(points), seen \cup {Head(points).source})

RECURSIVE PricesOfSource(_, _)
\* sourceMap.get(name).prices
PricesOfSource(points, name) ==
  IF points = <<>> THEN <<>>
  ELSE (IF Head(points).source = name THEN <<Head(points).price>> ELSE <<>>)
       \o PricesOfSource(Tail(points), name)

\* Array.from(sourceMap.entries()).map(...)
SourceDetails(filteredPrices) ==
  LET keys == SourceKeys(filteredPrices, {})
  IN [k \in 1..Len(keys) |->
        [name |-> formatSourceName(keys[k]),
         price |-> median(PricesOfSource(filteredPrices, keys[k])),
         count |-> Len(PricesOfSource(filteredPrices, keys[k])),
         isSimulated |-> keys[k] = "mock"]]

\* the price scaled to cents (1e2) instead of 1e8
toPriceInt_Cents(price) == price * 50

\* BigInt(Math.round(price * 1e8)); a price unit is half a dollar, so price * 1e8
\* dollars is the integer price * 50000000 and rounding leaves it as it is
toPriceInt(price) == price * 50000000

\* the threshold compared with > instead of >=
isPriceChangeSignificant_Strict(lastPrice, newPrice) ==
  IF lastPrice = Null THEN TRUE
  ELSE IF lastPrice.price = 0 THEN TRUE
  ELSE IF newPrice = 0 THEN FALSE
  ELSE Abs(newPrice - lastPrice.price) * 1000 > 5 * lastPrice.price

\* isPriceChangeSignificant(lastPrice?.price, newPrice): lastPrice is the stored
\* record, or Null when the map has none (oldPrice undefined)
isPriceChangeSignificant(lastPrice, newPrice) ==
  IF lastPrice = Null THEN TRUE
  ELSE IF lastPrice.price = 0 THEN TRUE
  ELSE IF newPrice = 0 THEN FALSE
  \* |new - old| / old >= priceChangeThreshold (0.005)
  ELSE Abs(newPrice - lastPrice.price) * 1000 >= 5 * lastPrice.price

\* const twap = this.twapCalculator.getTWAP(assetId) || medianPrice
TwapOrMedian(tw, medianPrice) ==
  IF tw = Null THEN FracOfInt(medianPrice)
  ELSE IF tw.num = 0 THEN FracOfInt(medianPrice)
  ELSE tw

\* the observation list of the asset after the TWAP update of a round at time t
ObservationsAfter(obs, medianPrice, t) ==
  prune(IF medianPrice > 0 THEN addObservation(obs, medianPrice, t) ELSE obs, t)

\* the record with updatedAt left at the epoch when no source contributed
BuildAggregatedPrice_EpochWhenEmpty(assetId, filteredPrices, obsAfter, t) ==
  LET medianPrice == IF Len(filteredPrices) > 0 THEN median(PricesIn(filteredPrices)) ELSE 0
      sources == SourceDetails(filteredPrices)
  IN [assetId |-> assetId,
      price |-> medianPrice,
      twap |-> TwapOrMedian(getTWAP(obsAfter, t), medianPrice),
      priceInt |-> toPriceInt(medianPrice),
      sourceCount |-> Len(sources),
      timestamp |-> t,
      updatedAt |-> IF Len(sources) = 0 THEN 0 ELSE t,
      currency |-> "USD",
      sources |-> sources]

\* the record updatePrice builds from the filtered observations at time t
BuildAggregatedPrice(assetId, filteredPrices, obsAfter, t) ==
  LET medianPrice == IF Len(filteredPrices) > 0 THEN median(PricesIn(filteredPrices)) ELSE 0
      sources == SourceDetails(filteredPrices)
  IN [assetId |-> assetId,
      price |-> medianPrice,
      twap |-> TwapOrMedian(getTWAP(obsAfter, t), medianPrice),
      priceInt |-> toPriceInt(medianPrice),
      sourceCount |-> Len(sources),
      timestamp |-> t,
      updatedAt |-> t,
      currency |-> "USD",
      sources |-> sources]

\* the stored price smoothed with the price of the record it replaces
StoredPrice_Smoothed(previous, aggregatedPrice) ==
  IF previous = Null THEN aggregatedPrice
  ELSE [aggregatedPrice EXCEPT !.price = (previous.price + aggregatedPrice.price + 1) \div 2]

\* what updatePrice stores for the asset: this.lastPrices.set(assetId, aggregatedPrice)
StoredPrice(previous, aggregatedPrice) == aggregatedPrice

\* the adapter outputs of the call before this one, when that call was an
\* updatePrice of the same asset with no step of the service in between: a list
\* of one element, or the empty list
PreviousResults(assetId) ==
  IF lastRound = Null THEN <<>>
  ELSE IF lastRound.assetId = assetId THEN <<lastRound.results>>
  ELSE <<>>

\* updatePrice(assetId), from the join of the fetches to its return: one
\* synchronous block of the event loop
updatePrice(assetId, r) ==
  LET filteredPrices == filterOutliers(Flat(r, 1))
      medianPrice == IF Len(filteredPrices) > 0 THEN median(PricesIn(filteredPrices)) ELSE 0
      obsAfter == ObservationsAfter(observations[assetId], medianPrice, now)
      aggregatedPrice == BuildAggregatedPrice(assetId, filteredPrices, obsAfter, now)
      previous == lastPrices[assetId]
  IN /\ observations' = [observations EXCEPT ![assetId] = obsAfter]
     /\ lastPrices' = [lastPrices EXCEPT ![assetId] = StoredPrice(previous, aggregatedPrice)]
     /\ lastRound' = [assetId |-> assetId,
                      results |-> r,
                      previousResults |-> PreviousResults(assetId),
                      observed |-> Len(Flat(r, 1)),
                      filtered |-> PricesIn(filteredPrices),
                      previous |-> previous,
                      price |-> aggregatedPrice,
                      changed |-> isPriceChangeSignificant(previous, medianPrice)]
     /\ priced' = IF Len(Flat(r, 1)) > 0 THEN priced \cup {assetId} ELSE priced

getPrice(assetId) == lastPrices[assetId]

-----------------------------------------------------------------------------
(* index.ts: main(), the two periodic loops; adapter.ts: POST /refresh *)

Positions == 1..Len(ASSET_IDS)

RECURSIVE Total(_, _)
Total(f, S) ==
  IF S = {} THEN 0 ELSE LET x == CHOOSE y \in S : TRUE IN f[x] + Total(f, S \ {x})

NoCalls == [i \in Positions |-> 0]

\* one invocation of updateAllPrices moves from the fetch of asset i to the next
\* asset's fetch, or returns after the last
Advance(calls, i) ==
  IF i < Len(ASSET_IDS)
  THEN [calls EXCEPT ![i] = @ - 1, ![i + 1] = @ + 1]
  ELSE [calls EXCEPT ![i] = @ - 1]

Running == mainPc # "exited"

RoundAllowed(i) == Len(prune(observations[ASSET_IDS[i]], now)) < MaxHeld

\* main() up to the start of the initial fetch, for an adapter list and a history
\* store configured or not
InitService(adapterLists, stores) ==
  /\ now = 0
  /\ adapters \in adapterLists
  /\ supabase \in stores
  /\ lastPrices = [a \in Assets |-> Null]
  /\ priced = {}
  /\ observations = [a \in Assets |-> <<>>]
  /\ mainPc = <<"initialFetch", 1>>
  /\ hwTimer = FALSE
  /\ hwNextFire = 0
  /\ hwTicks = NoCalls
  /\ refreshCalls = NoCalls
  /\ rentalTimer = FALSE
  /\ rentalNextFire = 0
  /\ rentalTicks = [p \in {"fetch", "store"} |-> 0]
  /\ lastRound = Null
  /\ reply = Null
  /\ rentalCache = Null
  /\ rentalFetches = 0
  /\ call = Null
  /\ feed = Null
  /\ inFlight = <<>>

\* the service started in API mode with only the eBay credentials configured
Init == InitService({SelectAdapters("api", {"ebay"})}, BOOLEAN)

\* the clock advances
Tick ==
  /\ Running
  /\ now < MaxTime
  /\ now' = now + 1
  /\ lastRound' = Null
  /\ reply' = Null
  /\ UNCHANGED <<inFlight, feed, call, rentalCache, rentalFetches, priced, adapters, supabase, lastPrices, observations, mainPc, hwTimer,
                 hwNextFire, hwTicks, refreshCalls, rentalTimer, rentalNextFire,
                 rentalTicks>>

\* main(): one asset of the initial `await aggregator.updateAllPrices()`; after
\* the last asset main arms the hardware timer and, with a history store, starts
\* the initial rental fetch, else it reaches the end of main
InitialFetchStep ==
  /\ Running
  /\ mainPc[1] = "initialFetch"
  /\ RoundAllowed(mainPc[2])
  /\ \E r \in FetchResults : updatePrice(ASSET_IDS[mainPc[2]], r)
  /\ IF mainPc[2] < Len(ASSET_IDS)
     THEN /\ mainPc' = <<"initialFetch", mainPc[2] + 1>>
          /\ UNCHANGED <<hwTimer, hwNextFire>>
     ELSE /\ mainPc' = IF supabase THEN <<"initialRental", 1>> ELSE <<"running", 0>>
          /\ hwTimer' = TRUE
          /\ hwNextFire' = now + updateIntervalMs
  /\ reply' = Null
  /\ UNCHANGED <<inFlight, feed, call, rentalCache, rentalFetches, now, adapters, supabase, hwTicks, refreshCalls, rentalTimer,
                 rentalNextFire, rentalTicks>>

\* main(): the initial `await updateRentalPrices()`: getAllPriceStats returns and
\* storeRentalPrices starts; or it throws, which the body catches, and main arms
\* the rental timer
InitialRentalFetched ==
  /\ Running
  /\ mainPc = <<"initialRental", 1>>
  /\ \E threw \in BOOLEAN :
       IF threw
       THEN /\ mainPc' = <<"running", 0>>
            /\ rentalTimer' = TRUE
            /\ rentalNextFire' = now + RENTAL_UPDATE_INTERVAL_MS
       ELSE /\ mainPc' = <<"initialRental", 2>>
            /\ UNCHANGED <<rentalTimer, rentalNextFire>>
  /\ lastRound' = Null
  /\ reply' = Null
  /\ UNCHANGED <<inFlight, feed, call, rentalCache, rentalFetches, priced, now, adapters, supabase, lastPrices, observations, hwTimer,
                 hwNextFire, hwTicks, refreshCalls, rentalTicks>>

\* main(): storeRentalPrices of the initial rental run settles; main arms the
\* rental timer
InitialRentalStored ==
  /\ Running
  /\ mainPc = <<"initialRental", 2>>
  /\ mainPc' = <<"running", 0>>
  /\ rentalTimer' = TRUE
  /\ rentalNextFire' = now + RENTAL_UPDATE_INTERVAL_MS
  /\ lastRound' = Null
  /\ reply' = Null
  /\ UNCHANGED <<inFlight, feed, call, rentalCache, rentalFetches, priced, now, adapters, supabase, lastPrices, observations, hwTimer,
                 hwNextFire, hwTicks, refreshCalls, rentalTicks>>

\* setInterval(async () => {...}, config.updateIntervalMs): the timer fires and
\* the callback runs to its first await, the fetch of the first asset
HwTimerFire ==
  /\ Running
  /\ hwTimer
  /\ now >= hwNextFire
  /\ Total(hwTicks, Positions) < MaxInFlight
  /\ hwTicks' = [hwTicks EXCEPT ![1] = @ + 1]
  /\ hwNextFire' = now + updateIntervalMs
  /\ lastRound' = Null
  /\ reply' = Null
  /\ UNCHANGED <<inFlight, feed, call, rentalCache, rentalFetches, priced, now, adapters, supabase, lastPrices, observations, mainPc, hwTimer,
                 refreshCalls, rentalTimer, rentalNextFire, rentalTicks>>

\* a hardware tick body: the fetches of asset i join and updatePrice(i) runs
HwTickStep ==
  /\ Running
  /\ \E i \in Positions :
       /\ hwTicks[i] > 0
       /\ RoundAllowed(i)
       /\ \E r \in FetchResults : updatePrice(ASSET_IDS[i], r)
       /\ hwTicks' = Advance(hwTicks, i)
  /\ reply' = Null
  /\ UNCHANGED <<inFlight, feed, call, rentalCache, rentalFetches, now, adapters, supabase, mainPc, hwTimer, hwNextFire, refreshCalls,
                 rentalTimer, rentalNextFire, rentalTicks>>

\* POST /refresh arrives: the handler calls updateAllPrices and awaits
RefreshRequest ==
  /\ Running
  /\ Total(refreshCalls, Positions) < 1
  /\ refreshCalls' = [refreshCalls EXCEPT ![1] = @ + 1]
  /\ lastRound' = Null
  /\ reply' = Null
  /\ UNCHANGED <<inFlight, feed, call, rentalCache, rentalFetches, priced, now, adapters, supabase, lastPrices, observations, mainPc, hwTimer,
                 hwNextFire, hwTicks, rentalTimer, rentalNextFire, rentalTicks>>

\* POST /refresh: the fetches of asset i join and updatePrice(i) runs; after the
\* last asset the handler replies
RefreshStep ==
  /\ Running
  /\ \E i \in Positions :
       /\ refreshCalls[i] > 0
       /\ RoundAllowed(i)
       /\ \E r \in FetchResults : updatePrice(ASSET_IDS[i], r)
       /\ refreshCalls' = Advance(refreshCalls, i)
       /\ reply' = IF i < Len(ASSET_IDS) THEN Null
                   ELSE [route |-> "POST /refresh", status |-> 200]
  /\ UNCHANGED <<inFlight, feed, call, rentalCache, rentalFetches, now, adapters, supabase, mainPc, hwTimer, hwNextFire, hwTicks,
                 rentalTimer, rentalNextFire, rentalTicks>>

\* setInterval(updateRentalPrices, RENTAL_UPDATE_INTERVAL_MS): the timer fires
\* and the body runs to `await vastaiAdapter.getAllPriceStats()`
RentalTimerFire ==
  /\ Running
  /\ rentalTimer
  /\ now >= rentalNextFire
  /\ rentalTicks["fetch"] + rentalTicks["store"] < MaxInFlight
  /\ rentalTicks' = [rentalTicks EXCEPT !["fetch"] = @ + 1]
  /\ rentalNextFire' = now + RENTAL_UPDATE_INTERVAL_MS
  /\ lastRound' = Null
  /\ reply' = Null
  /\ UNCHANGED <<inFlight, feed, call, rentalCache, rentalFetches, priced, now, adapters, supabase, lastPrices, observations, mainPc, hwTimer,
                 hwNextFire, hwTicks, refreshCalls, rentalTimer>>

\* a rental tick body: getAllPriceStats returns and storeRentalPrices starts, or
\* it throws and the body ends in its catch
RentalTickFetched ==
  /\ Running
  /\ rentalTicks["fetch"] > 0
  /\ \E threw \in BOOLEAN :
       rentalTicks' = IF threw
                      THEN [rentalTicks EXCEPT !["fetch"] = @ - 1]
                      ELSE [rentalTicks EXCEPT !["fetch"] = @ - 1, !["store"] = @ + 1]
  /\ lastRound' = Null
  /\ reply' = Null
  /\ UNCHANGED <<inFlight, feed, call, rentalCache, rentalFetches, priced, now, adapters, supabase, lastPrices, observations, mainPc, hwTimer,
                 hwNextFire, hwTicks, refreshCalls, rentalTimer, rentalNextFire>>

\* a rental tick body: storeRentalPrices settles and the body ends
RentalTickStored ==
  /\ Running
  /\ rentalTicks["store"] > 0
  /\ rentalTicks' = [rentalTicks EXCEPT !["store"] = @ - 1]
  /\ lastRound' = Null
  /\ reply' = Null
  /\ UNCHANGED <<inFlight, feed, call, rentalCache, rentalFetches, priced, now, adapters, supabase, lastPrices, observations, mainPc, hwTimer,
                 hwNextFire, hwTicks, refreshCalls, rentalTimer, rentalNextFire>>

\* SIGINT or SIGTERM once main registered the handlers: clearInterval on both
\* timers, process.exit(0)
Shutdown ==
  /\ mainPc = <<"running", 0>>
  /\ mainPc' = <<"exited", 0>>
  /\ hwTimer' = FALSE
  /\ rentalTimer' = FALSE
  /\ lastRound' = Null
  /\ reply' = Null
  /\ UNCHANGED <<inFlight, feed, call, rentalCache, rentalFetches, priced, now, adapters, supabase, lastPrices, observations, hwNextFire,
                 hwTicks, refreshCalls, rentalNextFire, rentalTicks>>

\* PriceAggregator.updatePrice(assetId) called by any caller: the fetches join
\* and the synchronous block runs
UpdatePriceCall ==
  /\ \E i \in Positions :
       /\ RoundAllowed(i)
       /\ \E r \in FetchResults : updatePrice(ASSET_IDS[i], r)
  /\ reply' = Null
  /\ UNCHANGED <<inFlight, feed, call, rentalCache, rentalFetches, now, adapters, supabase, mainPc, hwTimer, hwNextFire, hwTicks,
                 refreshCalls, rentalTimer, rentalNextFire, rentalTicks>>

-----------------------------------------------------------------------------
(* response.ts and the routes of adapter.ts that read the store *)

\* JSON values, tagged with their JavaScript type
JUndefined == [t |-> "undefined"]

JNull == [t |-> "null"]

JString(str) == [t |-> "string", s |-> str]

JNumber(n) == [t |-> "number", n |-> n]

\* a number that is a fraction of the model (a TWAP)
JFraction(q) == [t |-> "number", q |-> q]

\* an object: f maps its keys to their values
JObject(f) == [t |-> "object", f |-> f]

JArray(a) == [t |-> "array", a |-> a]

\* obj[key]
Get(v, key) ==
  IF v.t = "object" THEN (IF key \in DOMAIN v.f THEN v.f[key] ELSE JUndefined)
  ELSE JUndefined

\* typeof v === 'object'
TypeofObject(v) == v.t \in {"object", "array", "null"}

\* !v
Falsy(v) ==
  \/ v.t \in {"undefined", "null"}
  \/ v = JString("")
  \/ v = JNumber(0)

\* the success envelope with statusCode as the string "200"
buildSuccessResponse_StringStatus(requestId, price) ==
  JObject([jobRunID |-> requestId,
           statusCode |-> JString("200"),
           data |-> JObject([result |-> JString(ToString(price.priceInt)),
                             price |-> JNumber(price.price),
                             twap |-> JFraction(price.twap),
                             priceInt |-> JString(ToString(price.priceInt)),
                             sourceCount |-> JNumber(price.sourceCount),
                             timestamp |-> JNumber(price.timestamp),
                             assetId |-> JString(price.assetId)])])

buildSuccessResponse(requestId, price) ==
  JObject([jobRunID |-> requestId,
           statusCode |-> JNumber(200),
           data |-> JObject([result |-> JString(ToString(price.priceInt)),
                             price |-> JNumber(price.price),
                             twap |-> JFraction(price.twap),
                             priceInt |-> JString(ToString(price.priceInt)),
                             sourceCount |-> JNumber(price.sourceCount),
                             timestamp |-> JNumber(price.timestamp),
                             assetId |-> JString(price.assetId)])])

buildErrorResponse(requestId, statusCode, error) ==
  JObject([jobRunID |-> requestId,
           statusCode |-> JNumber(statusCode),
           error |-> JString(error)])

\* validateRequest(body): Null, or the request {id, data}
validateRequest(body) ==
  IF Falsy(body) \/ ~TypeofObject(body) THEN Null
  ELSE IF Get(body, "id") = JUndefined THEN Null
  ELSE IF Falsy(Get(body, "data")) \/ ~TypeofObject(Get(body, "data")) THEN Null
  ELSE [id |-> Get(body, "id"), data |-> Get(body, "data")]

\* the jobRunID of a reply to a body that did not validate: buildErrorResponse('0', ...)
InvalidRequestId(body) == JString("0")

\* ASSET_IDS.includes(assetId)
InCatalog(assetId) == assetId.t = "string" /\ assetId.s \in Assets

\* asset ids a request names: the catalog and one id outside it
RequestAssetIds == Assets \cup {"GPU_UNKNOWN"}

\* the id of a request
RequestId == JString("x1")

\* the `data` of a request body
RequestData ==
  {JString("string"), JObject([other |-> JNumber(1)])}
  \cup {JObject([assetId |-> JString(a)]) : a \in RequestAssetIds}
  \cup {JObject([asset |-> JString(a)]) : a \in Assets}
  \cup {JObject([assets |-> JArray(<<a>>)]) : a \in Assets}
  \cup {JObject([assetIds |-> JArray(<<a>>)]) : a \in RequestAssetIds \ Assets}

\* the bodies express.json() hands to the envelope routes
RequestBodies ==
  {JUndefined, JString("string"), JObject([id |-> RequestId])}
  \cup {JObject([data |-> JObject([assetId |-> JString(a)])]) : a \in Assets}
  \cup {JObject([id |-> RequestId, data |-> d]) : d \in RequestData}

\* GET /price/:assetId
GetPriceReply(assetId) ==
  IF assetId \notin Assets
  THEN [route |-> "GET /price/:assetId", request |-> JString(assetId), status |-> 400,
        body |-> JObject([error |-> JString("Invalid asset ID")])]
  ELSE IF getPrice(assetId) = Null
  THEN [route |-> "GET /price/:assetId", request |-> JString(assetId), status |-> 404,
        body |-> JObject([error |-> JString("Price not available"),
                          assetId |-> JString(assetId)])]
  ELSE LET price == getPrice(assetId)
       IN [route |-> "GET /price/:assetId", request |-> JString(assetId), status |-> 200,
           body |-> JObject([assetId |-> JString(assetId),
                             price |-> JNumber(price.price),
                             twap |-> JFraction(price.twap),
                             priceInt |-> JString(ToString(price.priceInt)),
                             sourceCount |-> JNumber(price.sourceCount),
                             timestamp |-> JNumber(price.timestamp),
                             currency |-> JString(price.currency),
                             sources |-> JArray(price.sources)])]

\* POST /price
PostPriceReply(body) ==
  LET validated == validateRequest(body)
      \* (data.assetId || data.asset)
      assetId == IF Falsy(Get(validated.data, "assetId"))
                 THEN Get(validated.data, "asset")
                 ELSE Get(validated.data, "assetId")
      respond(status, json) ==
        [route |-> "POST /price", request |-> body, status |-> status, body |-> json]
  IN IF validated = Null
     THEN respond(400, buildErrorResponse(InvalidRequestId(body), 400, "Invalid request format"))
     ELSE IF Falsy(assetId)
     THEN respond(400, buildErrorResponse(validated.id, 400, "Missing asset or assetId in data"))
     ELSE IF ~InCatalog(assetId)
     THEN respond(400, buildErrorResponse(validated.id, 400, "Invalid asset ID"))
     ELSE IF getPrice(assetId.s) = Null
     THEN respond(404, buildErrorResponse(validated.id, 404, "Price not available"))
     ELSE respond(200, buildSuccessResponse(validated.id, getPrice(assetId.s)))

RECURSIVE CollectPrices(_)
\* the loop of POST /prices over assetIds: the entries of `results`, in order
CollectPrices(assetIds) ==
  IF assetIds = <<>> THEN <<>>
  ELSE (IF getPrice(Head(assetIds)) = Null THEN <<>>
        ELSE <<[assetId |-> Head(assetIds),
                price |-> getPrice(Head(assetIds)).price,
                priceInt |-> ToString(getPrice(Head(assetIds)).priceInt),
                twap |-> getPrice(Head(assetIds)).twap]>>)
       \o CollectPrices(Tail(assetIds))

\* POST /prices
PostPricesReply(body) ==
  LET validated == validateRequest(body)
      assetIds == IF Get(validated.data, "assets").t = "array"
                  THEN Get(validated.data, "assets").a
                  ELSE IF Get(validated.data, "assetIds").t = "array"
                  THEN Get(validated.data, "assetIds").a
                  ELSE ASSET_IDS
      invalidAssets == SelectSeq(assetIds, LAMBDA a : a \notin Assets)
      respond(status, json) ==
        [route |-> "POST /prices", request |-> body, status |-> status, body |-> json]
  IN IF validated = Null
     THEN respond(400, buildErrorResponse(InvalidRequestId(body), 400, "Invalid request format"))
     ELSE IF Len(invalidAssets) > 0
     THEN respond(400, buildErrorResponse(validated.id, 400, "Invalid asset IDs"))
     ELSE respond(200, JObject([jobRunID |-> validated.id,
                                statusCode |-> JNumber(200),
                                data |-> JObject([result |-> JArray(CollectPrices(assetIds)),
                                                  timestamp |-> JNumber(now)])]))

\* a GET /price/:assetId request is served
GetPrice ==
  /\ Running
  /\ \E assetId \in RequestAssetIds : reply' = GetPriceReply(assetId)
  /\ lastRound' = Null
  /\ UNCHANGED <<inFlight, feed, call, rentalCache, rentalFetches, priced, now, adapters, supabase, lastPrices, observations, mainPc, hwTimer,
                 hwNextFire, hwTicks, refreshCalls, rentalTimer, rentalNextFire,
                 rentalTicks>>

\* a POST /price request is served
PostPrice ==
  /\ Running
  /\ \E body \in RequestBodies : reply' = PostPriceReply(body)
  /\ lastRound' = Null
  /\ UNCHANGED <<inFlight, feed, call, rentalCache, rentalFetches, priced, now, adapters, supabase, lastPrices, observations, mainPc, hwTimer,
                 hwNextFire, hwTicks, refreshCalls, rentalTimer, rentalNextFire,
                 rentalTicks>>

\* a POST /prices request is served
PostPrices ==
  /\ Running
  /\ \E body \in RequestBodies : reply' = PostPricesReply(body)
  /\ lastRound' = Null
  /\ UNCHANGED <<inFlight, feed, call, rentalCache, rentalFetches, priced, now, adapters, supabase, lastPrices, observations, mainPc, hwTimer,
                 hwNextFire, hwTicks, refreshCalls, rentalTimer, rentalNextFire,
                 rentalTicks>>

\* what the history store answers to a range query: it throws, or it returns rows
QueryThrew == [ok |-> FALSE, rows |-> <<>>]

QueryRows(rows) == [ok |-> TRUE, rows |-> rows]

\* a row of the hardware_prices table
HardwareRow ==
  [asset_id |-> ASSET_IDS[1], timestamp |-> 0, price |-> 10, twap |-> FracOfInt(10),
   source_count |-> 1]

\* a row of the rental_prices table
RentalRow ==
  [gpu_type |-> "RTX 4090", timestamp |-> 0, avg_price |-> 10, min_price |-> 10,
   max_price |-> 12, offer_count |-> 2]

\* getHardwareHistory(...) as the route sees it: rows, or an exception
HardwareHistoryAnswers == {QueryThrew, QueryRows(<<>>), QueryRows(<<HardwareRow>>)}

\* getRentalHistory(...): rows; it catches its errors and returns []
RentalHistoryAnswers == {QueryRows(<<>>), QueryRows(<<RentalRow>>)}

\* history.map(record => ({assetId: record.asset_id, ...})) of GET /prices/history
FormatHardwareHistory(rows) ==
  [i \in 1..Len(rows) |->
     JObject([assetId |-> JString(rows[i].asset_id),
              timestamp |-> JNumber(rows[i].timestamp),
              price |-> JNumber(rows[i].price),
              twap |-> JFraction(rows[i].twap),
              sourceCount |-> JNumber(rows[i].source_count)])]

\* history.map(record => ({gpuType: record.gpu_type, ...})) of GET /rental/history
FormatRentalHistory(rows) ==
  [i \in 1..Len(rows) |->
     JObject([gpuType |-> JString(rows[i].gpu_type),
              timestamp |-> JNumber(rows[i].timestamp),
              avgPrice |-> JNumber(rows[i].avg_price),
              minPrice |-> JNumber(rows[i].min_price),
              maxPrice |-> JNumber(rows[i].max_price),
              offerCount |-> JNumber(rows[i].offer_count)])]

\* GET /prices/history
GetPricesHistoryReply(answer) ==
  LET respond(status, json) ==
        [route |-> "GET /prices/history", request |-> JUndefined, status |-> status,
         body |-> json]
  IN IF ~supabase
     THEN respond(503, JObject([error |-> JString("History storage not configured"),
                                message |-> JString("Supabase is not configured for hardware price history.")]))
     ELSE IF ~answer.ok
     THEN respond(500, JObject([error |-> JString("Failed to fetch hardware history")]))
     ELSE respond(200, JObject([history |-> JArray(FormatHardwareHistory(answer.rows)),
                                count |-> JNumber(Len(answer.rows)),
                                source |-> JString("supabase")]))

\* GET /rental/history
GetRentalHistoryReply(answer) ==
  LET respond(status, json) ==
        [route |-> "GET /rental/history", request |-> JUndefined, status |-> status,
         body |-> json]
  IN IF ~supabase
     THEN respond(503, JObject([error |-> JString("History storage not configured"),
                                message |-> JString("Supabase is not configured. Set SUPABASE_URL and SUPABASE_ANON_KEY.")]))
     ELSE IF ~answer.ok
     THEN respond(500, JObject([error |-> JString("Failed to fetch rental history")]))
     ELSE respond(200, JObject([history |-> JArray(FormatRentalHistory(answer.rows)),
                                count |-> JNumber(Len(answer.rows))]))

\* a GET /prices/history request is served
GetPricesHistory ==
  /\ Running
  /\ \E answer \in HardwareHistoryAnswers : reply' = GetPricesHistoryReply(answer)
  /\ lastRound' = Null
  /\ UNCHANGED <<inFlight, feed, call, rentalCache, rentalFetches, priced, now, adapters, supabase, lastPrices, observations, mainPc, hwTimer,
                 hwNextFire, hwTicks, refreshCalls, rentalTimer, rentalNextFire,
                 rentalTicks>>

\* a GET /rental/history request is served
GetRentalHistory ==
  /\ Running
  /\ \E answer \in RentalHistoryAnswers : reply' = GetRentalHistoryReply(answer)
  /\ lastRound' = Null
  /\ UNCHANGED <<inFlight, feed, call, rentalCache, rentalFetches, priced, now, adapters, supabase, lastPrices, observations, mainPc, hwTimer,
                 hwNextFire, hwTicks, refreshCalls, rentalTimer, rentalNextFire,
                 rentalTicks>>

-----------------------------------------------------------------------------
(* api/rental.ts: GET /rental/prices and its cache *)

\* what vastaiAdapter.getAllPriceStats() resolves to: the statistics per GPU
\* type (searchOffers catches its errors, so the call does not reject)
RentalSnapshots ==
  {JObject([RTX_4090 |-> JObject([avgPrice |-> JNumber(p), offerCount |-> JNumber(2)])]) :
     p \in ObsPrices}

\* rentalCache && Date.now() - rentalCache.timestamp < CACHE_TTL_MS
CacheFresh == rentalCache # Null /\ now - rentalCache.timestamp < CACHE_TTL_MS

\* res.json({prices, timestamp, cached})
RentalPricesReply(prices, timestamp, cached) ==
  [route |-> "GET /rental/prices", request |-> JUndefined, status |-> 200,
   body |-> JObject([prices |-> prices,
                     timestamp |-> JNumber(timestamp),
                     cached |-> cached])]

\* GET /rental/prices arrives: the handler answers from a fresh cache, or calls
\* getAllPriceStats and awaits
GetRentalPrices ==
  /\ Running
  /\ IF CacheFresh
     THEN /\ reply' = RentalPricesReply(rentalCache.data, rentalCache.timestamp, TRUE)
          /\ UNCHANGED rentalFetches
     ELSE /\ rentalFetches < MaxInFlight
          /\ rentalFetches' = rentalFetches + 1
          /\ reply' = Null
  /\ lastRound' = Null
  /\ UNCHANGED <<inFlight, feed, call, rentalCache, priced, now, adapters, supabase, lastPrices, observations,
                 mainPc, hwTimer, hwNextFire, hwTicks, refreshCalls, rentalTimer,
                 rentalNextFire, rentalTicks>>

\* what searchOffers served the statistics from: the offers of the marketplace,
\* or, when the request failed, the offers of generateSimulatedOffers
RentalUpstreams == {"marketplace", "simulated"}

\* getAllPriceStats of one waiting handler resolves, searchOffers having used
\* the given upstream: the handler writes the cache, hands the records to
\* storeRentalPrices and answers
RentalPricesFetchedFrom(upstream) ==
  /\ Running
  /\ rentalFetches > 0
  /\ rentalFetches' = rentalFetches - 1
  /\ \E prices \in RentalSnapshots :
       /\ rentalCache' = [data |-> prices, timestamp |-> now]
       /\ reply' = RentalPricesReply(prices, now, FALSE)
  /\ lastRound' = Null
  /\ UNCHANGED <<inFlight, feed, call, priced, now, adapters, supabase, lastPrices, observations, mainPc,
                 hwTimer, hwNextFire, hwTicks, refreshCalls, rentalTimer, rentalNextFire,
                 rentalTicks>>

RentalPricesFetched == \E upstream \in RentalUpstreams : RentalPricesFetchedFrom(upstream)

-----------------------------------------------------------------------------
(* Specifications *)

Next ==
  \/ Tick
  \/ InitialFetchStep
  \/ InitialRentalFetched
  \/ InitialRentalStored
  \/ HwTimerFire
  \/ HwTickStep
  \/ RentalTimerFire
  \/ RentalTickFetched
  \/ RentalTickStored
  \/ Shutdown

\* main(): the initial fetches, the two periodic loops and shutdown
Spec == Init /\ [][Next]_vars

\* the aggregator constructed in API mode with the eBay credentials configured,
\* before its first call
InitAggregator == InitService({SelectAdapters("api", {"ebay"})}, {FALSE})

NextAggregator ==
  \/ Tick
  \/ UpdatePriceCall

\* the PriceAggregator under any sequence of updatePrice calls and any advance
\* of the clock
SpecAggregator == InitAggregator /\ [][NextAggregator]_vars

\* the aggregator as main() constructs it in each mode: scrapers, mock, and the
\* API adapters for each set of configured credentials
InitAnyMode ==
  InitService({SelectAdapters("scrape", {}), SelectAdapters("demo", {})}
              \cup {SelectAdapters("api", c) : c \in SUBSET {"ebay", "amazon", "bestbuy"}},
              {FALSE})

\* the first updatePrice call of the aggregator
FirstUpdatePrice ==
  /\ \A a \in Assets : lastPrices[a] = Null
  /\ UpdatePriceCall

\* the first round of the aggregator, in every mode
SpecFirstRound == InitAnyMode /\ [][FirstUpdatePrice]_vars

\* the service in API mode with the eBay credentials configured, with and
\* without a history store
InitHttp == InitService({SelectAdapters("api", {"ebay"})}, BOOLEAN)

NextHttp ==
  \/ UpdatePriceCall
  \/ GetPrice
  \/ PostPrice
  \/ PostPrices
  \/ GetPricesHistory
  \/ GetRentalHistory
  \/ RefreshRequest
  \/ RefreshStep

\* the routes that read the store, under any sequence of rounds
SpecHttp == InitHttp /\ [][NextHttp]_vars

NextRental ==
  \/ Tick
  \/ GetRentalPrices
  \/ RentalPricesFetched

\* GET /rental/prices under any arrival of requests and any advance of the clock
SpecRental == InitHttp /\ [][NextRental]_vars

\* the longest list of observations handed to filterOutliers alone
MaxPoints == 4

\* listing prices for filterOutliers alone: even numbers of half-dollars, so
\* that the medians and deviations are whole
OutlierPrices == {0, 10, 12, 40}

\* the PricePoint lists handed to filterOutliers
OutlierInputs ==
  UNION {[1..n -> [price : OutlierPrices, source : {"ebay"}]] : n \in 0..MaxPoints}

\* filterOutliers(prices), called outside a round
FilterOutliersCall ==
  /\ call = Null
  /\ \E prices \in OutlierInputs :
       call' = [fn |-> "filterOutliers", args |-> prices, result |-> filterOutliers(prices)]
  /\ UNCHANGED <<inFlight, feed, now, adapters, supabase, lastPrices, observations, mainPc, hwTimer,
                 hwNextFire, hwTicks, refreshCalls, rentalTimer, rentalNextFire,
                 rentalTicks, lastRound, reply, priced, rentalCache, rentalFetches>>

\* filterOutliers on every list of up to MaxPoints observations
SpecOutlier == InitAggregator /\ [][FilterOutliersCall]_vars

NextOutlierRound ==
  \/ FilterOutliersCall
  \/ FirstUpdatePrice

\* filterOutliers on its own and inside the first round of the aggregator
SpecOutlierRound == InitAggregator /\ [][NextOutlierRound]_vars

\* observation prices for getTWAP alone: their time-weighted averages need not
\* be whole
TwapPrices == {10, 13}

\* the observation lists a TWAPCalculator can hold for an asset at time t, before
\* the prune: any MaxObs observations stamped up to t
TwapInputs(t) ==
  UNION {[1..n -> [price : TwapPrices, timestamp : 0..t]] : n \in 0..MaxObs}

\* getTWAP(assetId), called outside a round at the current time
GetTWAPCall ==
  /\ call = Null
  /\ \E obs \in TwapInputs(now) :
       call' = [fn |-> "getTWAP",
                args |-> [obs |-> obs, now |-> now],
                result |-> getTWAP(prune(obs, now), now)]
  /\ UNCHANGED <<inFlight, feed, now, adapters, supabase, lastPrices, observations, mainPc, hwTimer,
                 hwNextFire, hwTicks, refreshCalls, rentalTimer, rentalNextFire,
                 rentalTicks, lastRound, reply, priced, rentalCache, rentalFetches>>

NextTwap ==
  \/ Tick
  \/ GetTWAPCall

\* twapCalculator.addObservation(assetId, price), called at the current time
AddObservationCall ==
  /\ \E a \in Assets, price \in TwapPrices :
       /\ Len(observations[a]) < MaxObs
       /\ observations' = [observations EXCEPT ![a] = addObservation(@, price, now)]
       /\ call' = [fn |-> "addObservation", args |-> [assetId |-> a, price |-> price, now |-> now]]
  /\ UNCHANGED <<now, adapters, supabase, lastPrices, mainPc, hwTimer, hwNextFire, hwTicks,
                 refreshCalls, rentalTimer, rentalNextFire, rentalTicks, lastRound, reply,
                 priced, rentalCache, rentalFetches, feed, inFlight>>

\* twapCalculator.getTWAP(assetId), called at the current time: it prunes the
\* list held for the asset and averages what is left
GetTWAPOfStore ==
  /\ \E a \in Assets :
       /\ observations' = [observations EXCEPT ![a] = prune(@, now)]
       /\ call' = [fn |-> "getTWAP",
                   args |-> [obs |-> observations[a], now |-> now],
                   result |-> getTWAP(prune(observations[a], now), now)]
  /\ UNCHANGED <<now, adapters, supabase, lastPrices, mainPc, hwTimer, hwNextFire, hwTicks,
                 refreshCalls, rentalTimer, rentalNextFire, rentalTicks, lastRound, reply,
                 priced, rentalCache, rentalFetches, feed, inFlight>>

NextTwapStore ==
  \/ Tick
  \/ AddObservationCall
  \/ GetTWAPOfStore

\* a TWAPCalculator under any sequence of addObservation and getTWAP calls and
\* any advance of the clock
SpecTwapStore == InitAggregator /\ [][NextTwapStore]_vars

\* getTWAP on every observation list, at every time
SpecTwap == InitAggregator /\ [][NextTwap]_vars

-----------------------------------------------------------------------------
(* adapters/types.ts: fetchWithRetry, and the scraping adapters that use it *)

\* the default of the maxRetries parameter, which is also what the adapters pass
maxRetries == 3

\* client.get resolved with a response: validateStatus accepts every status < 500
Response(status) == [t |-> "response", status |-> status]

\* client.get rejected: a network error, or a status >= 500
NetworkError == [t |-> "error", message |-> "network"]

\* new Error('Max retries exceeded')
MaxRetriesExceeded == [t |-> "error", message |-> "Max retries exceeded"]

\* what one client.get can give
AttemptOutcomes == {Response(s) : s \in {200, 403, 404, 429}} \cup {NetworkError}

\* return response, after the given number of client.get calls
Resolved(response, attempts) == [t |-> "resolved", value |-> response, attempts |-> attempts]

\* throw error, after the given number of client.get calls
Thrown(error, attempts) == [t |-> "thrown", error |-> error, attempts |-> attempts]

RECURSIVE RetryLoop(_, _, _)
\* the for loop of fetchWithRetry from the given attempt on; outcomes[k] is what
\* the k-th client.get gives
RetryLoop(outcomes, attempt, lastError) ==
  IF attempt >= maxRetries
  \* throw lastError || new Error('Max retries exceeded')
  THEN Thrown(IF lastError = Null THEN MaxRetriesExceeded ELSE lastError, attempt)
  ELSE LET o == outcomes[attempt + 1]
       IN IF o.t = "error" THEN RetryLoop(outcomes, attempt + 1, o)
          ELSE IF o.status = 200 THEN Resolved(o, attempt + 1)
          \* rate limited or blocked: sleep, then continue
          ELSE IF o.status \in {403, 429} THEN RetryLoop(outcomes, attempt + 1, lastError)
          ELSE Resolved(o, attempt + 1)

\* fetchWithRetry(client, url, config, 3)
fetchWithRetry(outcomes) == RetryLoop(outcomes, 0, Null)

\* new AdapterError(adapter, code, ...)
AdapterError(adapter, code) == [t |-> "AdapterError", adapter |-> adapter, code |-> code]

\* the listings the selectors find in a page
PageListings == {<<>>, <<10>>, <<10, 12>>}

\* NeweggScraperAdapter.fetchPrices: the homepage request, the search through
\* fetchWithRetry, the check of the status, the parse of the page
NeweggFetchPrices(homepage, outcomes, listings) ==
  IF homepage.t = "error" THEN Thrown(AdapterError("newegg-scraper", "SCRAPE_FAILED"), 0)
  ELSE LET r == fetchWithRetry(outcomes)
       IN IF r.t = "thrown"
          THEN Thrown(AdapterError("newegg-scraper", "SCRAPE_FAILED"), r.attempts)
          ELSE IF r.value.status \in {403, 429}
          THEN Thrown(AdapterError("newegg-scraper", "BLOCKED"), r.attempts)
          ELSE Resolved(listings, r.attempts)

\* fetchWithRetry, called with any outcome of each attempt
FetchWithRetryCall ==
  /\ call = Null
  /\ \E outcomes \in [1..maxRetries -> AttemptOutcomes] :
       call' = [fn |-> "fetchWithRetry", args |-> outcomes, result |-> fetchWithRetry(outcomes)]
  /\ UNCHANGED <<inFlight, feed, now, adapters, supabase, lastPrices, observations, mainPc, hwTimer,
                 hwNextFire, hwTicks, refreshCalls, rentalTimer, rentalNextFire,
                 rentalTicks, lastRound, reply, priced, rentalCache, rentalFetches>>

\* NeweggScraperAdapter.fetchPrices, called with any answer of the site
NeweggFetchPricesCall ==
  /\ call = Null
  /\ \E homepage \in AttemptOutcomes, outcomes \in [1..maxRetries -> AttemptOutcomes],
        listings \in PageListings :
       call' = [fn |-> "fetchPrices",
                args |-> [homepage |-> homepage, outcomes |-> outcomes, listings |-> listings],
                result |-> NeweggFetchPrices(homepage, outcomes, listings)]
  /\ UNCHANGED <<inFlight, feed, now, adapters, supabase, lastPrices, observations, mainPc, hwTimer,
                 hwNextFire, hwTicks, refreshCalls, rentalTimer, rentalNextFire,
                 rentalTicks, lastRound, reply, priced, rentalCache, rentalFetches>>

NextScraper ==
  \/ FetchWithRetryCall
  \/ NeweggFetchPricesCall

\* one call of fetchWithRetry or of a scraping adapter, with any answers of the site
SpecScraper == InitAggregator /\ [][NextScraper]_vars

-----------------------------------------------------------------------------
(* adapters/rental-vastai.ts: searchOffers *)

\* the longest list of offers, of the marketplace or simulated
MaxOffers == 2

\* an offer of the marketplace response: num_gpus and dph_total, 0 standing for
\* a missing field as well (both are falsy)
MarketOffers == [num_gpus : {0, 1, 2, 4}, dph_total : {0, 12, 24}]

\* what the GET /bundles/ request gives: an error, a body without offers, or a
\* body with a list of offers
MarketOutcomes ==
  {[t |-> "error"], [t |-> "noOffers"]}
    \cup {[t |-> "offers", offers |-> l] :
            l \in UNION {[1..n -> MarketOffers] : n \in 0..MaxOffers}}

\* the random draws of generateSimulatedOffers for one offer: the GPU count
\* (1..4) and the price
SimulatedDraws == [gpuCount : 1..4, price : {10, 12}]

\* generateSimulatedOffers(gpuType), with the given draws; simulated stands for
\* the id of the offer, which starts with sim- for these offers alone
generateSimulatedOffers(draws) ==
  [i \in 1..Len(draws) |->
     [gpuCount |-> draws[i].gpuCount,
      pricePerHour |-> draws[i].price,
      pricePerGpuHour |-> FracOfInt(draws[i].price),
      simulated |-> TRUE]]

\* the RentalOffer built from an offer of the marketplace
NormalizeOffer(offer) ==
  LET n == IF offer.num_gpus = 0 THEN 1 ELSE offer.num_gpus   \* offer.num_gpus || 1
  IN [gpuCount |-> n,
      pricePerHour |-> offer.dph_total,
      pricePerGpuHour |-> Frac(offer.dph_total, n),
      simulated |-> FALSE]

\* searchOffers(gpuType), with the given outcome of the request and the draws
\* taken if it falls back
searchOffers(outcome, draws) ==
  IF outcome.t = "error" THEN generateSimulatedOffers(draws)
  ELSE IF outcome.t = "noOffers" THEN <<>>
  ELSE [i \in 1..Len(outcome.offers) |-> NormalizeOffer(outcome.offers[i])]

\* searchOffers, called with any answer of the marketplace
SearchOffersCall ==
  /\ call = Null
  /\ \E outcome \in MarketOutcomes,
        draws \in UNION {[1..n -> SimulatedDraws] : n \in 1..MaxOffers} :
       /\ outcome.t # "error" => draws = <<[gpuCount |-> 1, price |-> 10]>>
       /\ call' = [fn |-> "searchOffers",
                   args |-> [outcome |-> outcome, draws |-> draws],
                   result |-> searchOffers(outcome, draws)]
  /\ UNCHANGED <<inFlight, feed, now, adapters, supabase, lastPrices, observations, mainPc, hwTimer,
                 hwNextFire, hwTicks, refreshCalls, rentalTimer, rentalNextFire,
                 rentalTicks, lastRound, reply, priced, rentalCache, rentalFetches>>

\* one call of searchOffers
SpecOffers == InitAggregator /\ [][SearchOffersCall]_vars

-----------------------------------------------------------------------------
(* contracts/HardwarePriceFeed.sol; feed is Null until the contract is deployed *)

\* the rounds a feed goes through
MaxRounds == 2

\* the accounts that can be oracles
Accounts == {"oracle1", "oracle2", "oracle3"}

\* the prices submitted (int256, 8 decimals, scaled down)
FeedPrices == {10, 12, 40}

\* the value of a RoundData never written
NoRound == [answer |-> 0, startedAt |-> 0, updatedAt |-> 0, answeredInRound |-> 0]

\* the lists of initial oracles the constructor is given
InitialOracles ==
  {<<"oracle1">>, <<"oracle1", "oracle2">>, <<"oracle1", "oracle2", "oracle3">>}

\* constructor(_assetId, description_, _heartbeat, initialOracles)
FeedConstructed(initialOracles) ==
  [isOracle |-> {initialOracles[i] : i \in 1..Len(initialOracles)},
   oracles |-> initialOracles,
   latestRound |-> 0,
   rounds |-> [r \in 0..MaxRounds |-> NoRound],
   submissions |-> [r \in 1..MaxRounds |-> [a \in Accounts |-> 0]],
   submitters |-> [r \in 1..MaxRounds |-> <<>>]]

\* latestRoundData() of a storage: roundId and answer
latestRoundData(f) == [roundId |-> f.latestRound, answer |-> f.rounds[f.latestRound].answer]

\* the majority of the oracles, counted as a unanimity
Threshold_All(f) == Len(f.oracles)

\* uint256 threshold = (_oracles.length / 2) + 1
Threshold(f) == Len(f.oracles) \div 2 + 1

\* _calculateMedian(roundId): the prices of the submitters of the round, sorted,
\* and the middle one or the truncated mean of the two middle ones
calculateMedian(f, roundId) ==
  LET submitters == f.submitters[roundId]
      n == Len(submitters)
      prices == SortNum([i \in 1..n |-> f.submissions[roundId][submitters[i]]])
  IN IF n % 2 = 0 THEN (prices[n \div 2] + prices[n \div 2 + 1]) \div 2
     ELSE prices[n \div 2 + 1]

\* the storage after updatePrice(price) sent by sender at block time t
AfterUpdatePrice(f, sender, price, t) ==
  LET currentRound == f.latestRound + 1
      alreadySubmitted ==
        \E i \in 1..Len(f.submitters[currentRound]) : f.submitters[currentRound][i] = sender
      recorded ==
        [f EXCEPT !.submissions[currentRound][sender] = price,
                  !.submitters[currentRound] =
                     IF alreadySubmitted THEN @ ELSE Append(@, sender)]
  IN IF Len(recorded.submitters[currentRound]) >= Threshold(recorded)
     THEN [recorded EXCEPT
             !.rounds[currentRound] =
                [answer |-> calculateMedian(recorded, currentRound),
                 startedAt |-> t, updatedAt |-> t, answeredInRound |-> currentRound],
             !.latestRound = currentRound]
     ELSE recorded

\* the oracles array after removeOracle: the entry is overwritten by the last
\* one and the array popped
RemoveFromArray(oracles, oracle) ==
  LET i == CHOOSE k \in 1..Len(oracles) : oracles[k] = oracle
      moved == [oracles EXCEPT ![i] = oracles[Len(oracles)]]
  IN SubSeq(moved, 1, Len(oracles) - 1)

\* the constructor runs
FeedDeploy ==
  /\ feed = Null
  /\ \E initialOracles \in InitialOracles : feed' = FeedConstructed(initialOracles)
  /\ call' = Null
  /\ UNCHANGED <<inFlight, now, adapters, supabase, lastPrices, observations, mainPc, hwTimer,
                 hwNextFire, hwTicks, refreshCalls, rentalTimer, rentalNextFire,
                 rentalTicks, lastRound, reply, priced, rentalCache, rentalFetches>>

\* updatePrice(price) sent by an authorized oracle with a positive price (any
\* other call reverts and leaves the storage as it is)
FeedUpdatePrice ==
  /\ feed # Null
  /\ feed.latestRound < MaxRounds
  /\ \E sender \in feed.isOracle, price \in FeedPrices :
       /\ feed' = AfterUpdatePrice(feed, sender, price, now)
       /\ call' = [fn |-> "updatePrice", sender |-> sender, price |-> price, before |-> feed]
  /\ UNCHANGED <<inFlight, now, adapters, supabase, lastPrices, observations, mainPc, hwTimer,
                 hwNextFire, hwTicks, refreshCalls, rentalTimer, rentalNextFire,
                 rentalTicks, lastRound, reply, priced, rentalCache, rentalFetches>>

\* addOracle(oracle) sent by the owner, for an account that is not an oracle
FeedAddOracle ==
  /\ feed # Null
  /\ \E oracle \in Accounts \ feed.isOracle :
       /\ feed' = [feed EXCEPT !.isOracle = @ \cup {oracle}, !.oracles = Append(@, oracle)]
       /\ call' = [fn |-> "addOracle", sender |-> "owner", oracle |-> oracle, before |-> feed]
  /\ UNCHANGED <<inFlight, now, adapters, supabase, lastPrices, observations, mainPc, hwTimer,
                 hwNextFire, hwTicks, refreshCalls, rentalTimer, rentalNextFire,
                 rentalTicks, lastRound, reply, priced, rentalCache, rentalFetches>>

\* removeOracle(oracle) sent by the owner, for an oracle that is not the last one
FeedRemoveOracle ==
  /\ feed # Null
  /\ Len(feed.oracles) > 1
  /\ \E oracle \in feed.isOracle :
       /\ feed' = [feed EXCEPT !.isOracle = @ \ {oracle},
                               !.oracles = RemoveFromArray(@, oracle)]
       /\ call' = [fn |-> "removeOracle", sender |-> "owner", oracle |-> oracle, before |-> feed]
  /\ UNCHANGED <<inFlight, now, adapters, supabase, lastPrices, observations, mainPc, hwTimer,
                 hwNextFire, hwTicks, refreshCalls, rentalTimer, rentalNextFire,
                 rentalTicks, lastRound, reply, priced, rentalCache, rentalFetches>>

NextFeed ==
  \/ FeedDeploy
  \/ FeedUpdatePrice

\* a feed with the oracles of its constructor, under any sequence of submissions
SpecFeed == InitAggregator /\ [][NextFeed]_vars

NextFeedAdmin ==
  \/ FeedDeploy
  \/ FeedUpdatePrice
  \/ FeedAddOracle
  \/ FeedRemoveOracle

\* a feed under any interleaving of submissions and changes of the oracle set
SpecFeedAdmin == InitAggregator /\ [][NextFeedAdmin]_vars

-----------------------------------------------------------------------------
(* aggregator.ts: updatePrice calls that overlap, followed one by one *)

\* updatePrice(assetId) is called, by a tick or by POST /refresh: the fetches
\* start and the call awaits them
RoundFetchStarted ==
  /\ Running
  /\ Len(inFlight) < MaxInFlight
  /\ inFlight' = Append(inFlight, [startedAt |-> now, overtaken |-> FALSE])
  /\ lastRound' = Null
  /\ reply' = Null
  /\ UNCHANGED <<now, adapters, supabase, lastPrices, observations, mainPc, hwTimer,
                 hwNextFire, hwTicks, refreshCalls, rentalTimer, rentalNextFire,
                 rentalTicks, priced, rentalCache, rentalFetches, call, feed>>

\* the calls in flight once the k-th has returned: those that started before it
\* have been overtaken
AfterJoin(calls, k) ==
  [j \in 1..(Len(calls) - 1) |->
     IF j < k THEN [calls[j] EXCEPT !.overtaken = TRUE] ELSE calls[j + 1]]

\* the fetches of the k-th call in flight join: the rest of updatePrice runs and
\* installs its record
RoundFetchJoined(k) ==
  /\ Running
  /\ k \in 1..Len(inFlight)
  /\ RoundAllowed(1)
  /\ \E r \in FetchResults : updatePrice(ASSET_IDS[1], r)
  /\ inFlight' = AfterJoin(inFlight, k)
  /\ reply' = Null
  /\ UNCHANGED <<now, adapters, supabase, mainPc, hwTimer, hwNextFire, hwTicks,
                 refreshCalls, rentalTimer, rentalNextFire, rentalTicks, rentalCache,
                 rentalFetches, call, feed>>

RoundFetchJoinedAny == \E k \in 1..MaxInFlight : RoundFetchJoined(k)

NextOverlap ==
  \/ Tick
  \/ RoundFetchStarted
  \/ RoundFetchJoinedAny

\* the aggregator under updatePrice calls of one asset that may overlap
SpecOverlap == InitAggregator /\ [][NextOverlap]_vars

-----------------------------------------------------------------------------
(* Properties *)

\* the round of the most recent step, when that step was an updatePrice
RoundDone == lastRound # Null

\* the filtered observations of the round all have the price p
AllFiltered(p) ==
  /\ Len(lastRound.filtered) > 0
  /\ \A i \in 1..Len(lastRound.filtered) : lastRound.filtered[i] = p

\* C1: a round in which every adapter fails or returns no observations leaves
\* the store entry of the asset as it was: absent if it was absent, the same
\* record (same price, same timestamp) if there was one.
C1_FailedRoundKeepsStore ==
  (RoundDone /\ lastRound.observed = 0)
    => getPrice(lastRound.assetId) = lastRound.previous

\* C2: for each periodic loop, at most one tick body is executing at any time.
C2_TicksNeverOverlap ==
  /\ Total(hwTicks, Positions) <= 1
  /\ rentalTicks["fetch"] + rentalTicks["store"] <= 1

\* C3: every stored record has priceInt = round(price * 10^8) (a price unit is
\* half a dollar: 2 * priceInt = price * 10^8), priceInt is non-negative, and
\* priceInt = 0 exactly when sourceCount = 0.
C3_PriceIntScaled ==
  \A a \in Assets :
    getPrice(a) # Null =>
      /\ 2 * getPrice(a).priceInt = getPrice(a).price * 100000000
      /\ getPrice(a).priceInt >= 0
      /\ (getPrice(a).priceInt = 0) <=> (getPrice(a).sourceCount = 0)

\* C3 witness: a round installed a record with some source and a price that is
\* the mean of two listings
C3_Witness ==
  /\ RoundDone
  /\ getPrice(lastRound.assetId).sourceCount > 0
  /\ getPrice(lastRound.assetId).price = 11
  /\ getPrice(lastRound.assetId).priceInt = 550000000

\* C4: the sources of every installed record have pairwise distinct names, and
\* sourceCount is the number of entries.
C4_SourcesDistinct ==
  \A a \in Assets :
    getPrice(a) # Null =>
      /\ \A i, j \in 1..Len(getPrice(a).sources) :
           getPrice(a).sources[i].name = getPrice(a).sources[j].name => i = j
      /\ getPrice(a).sourceCount = Len(getPrice(a).sources)

\* C4 witness: a round installed a record with two sources out of three
\* filtered observations, so two observations of one adapter were collapsed
C4_Witness ==
  /\ RoundDone
  /\ Len(lastRound.filtered) = 3
  /\ getPrice(lastRound.assetId).sourceCount = 2

\* C5 as stated: in every state, every held observation is at most windowMs old.
C5_AlwaysWithinWindow ==
  \A a \in Assets : \A i \in 1..Len(observations[a]) :
    now - observations[a][i].timestamp <= windowMs

\* C5: when updatePrice has just run for an asset (addObservation and getTWAP
\* have pruned its list), every observation held for that asset is at most
\* windowMs old.
C5_WithinWindowAfterPrune ==
  RoundDone =>
    \A i \in 1..Len(observations[lastRound.assetId]) :
      now - observations[lastRound.assetId][i].timestamp <= windowMs

\* C5 witness: after a round, the asset holds an observation exactly windowMs
\* old next to the one just added
C5_Witness ==
  /\ RoundDone
  /\ Len(observations[lastRound.assetId]) = 2
  /\ observations[lastRound.assetId][1].timestamp = now - windowMs
  /\ observations[lastRound.assetId][2].timestamp = now

\* C6 as stated: a record installed over another one has a strictly larger
\* updatedAt.
C6_UpdatedAtStrictlyIncreasing ==
  (RoundDone /\ lastRound.previous # Null)
    => getPrice(lastRound.assetId).updatedAt > lastRound.previous.updatedAt

\* C6: a record installed over another one has an updatedAt that is not smaller.
C6_UpdatedAtNonDecreasing ==
  (RoundDone /\ lastRound.previous # Null)
    => getPrice(lastRound.assetId).updatedAt >= lastRound.previous.updatedAt

\* C6 witness: a record was installed over one made in the same millisecond
C6_Witness ==
  /\ RoundDone
  /\ lastRound.previous # Null
  /\ getPrice(lastRound.assetId).updatedAt = lastRound.previous.updatedAt

\* C7 as stated: if all filtered observations of a round have the price p, the
\* installed record has price = p and twap = p.
C7_UniformRoundPriceAndTwap ==
  \A p \in ObsPrices :
    (RoundDone /\ AllFiltered(p)) =>
      /\ getPrice(lastRound.assetId).price = p
      /\ getPrice(lastRound.assetId).twap = FracOfInt(p)

\* C7: if all filtered observations of a round have the price p, the installed
\* record has price = p, and it has twap = p when the observation of this round
\* is the only one the TWAP calculator holds for the asset.
C7_UniformRoundPrice ==
  \A p \in ObsPrices :
    (RoundDone /\ AllFiltered(p)) =>
      /\ getPrice(lastRound.assetId).price = p
      /\ Len(observations[lastRound.assetId]) = 1
           => getPrice(lastRound.assetId).twap = FracOfInt(p)

\* C7 witness: a round of two equal listings ran after a round with another
\* price whose observation has left the window
C7_Witness ==
  /\ RoundDone
  /\ Len(lastRound.filtered) = 2
  /\ AllFiltered(12)
  /\ lastRound.previous # Null
  /\ lastRound.previous.price = 10
  /\ Len(observations[lastRound.assetId]) = 1

\* the most recent step answered a request of the route
Replied(route) == reply # Null /\ reply.route = route

\* C8: GET /price/:assetId answers 400 for an id outside the catalog; for a
\* catalog asset it answers 404 exactly when no round has yet yielded an
\* observation for it, and 200 otherwise.
C8_NotFoundIffNeverPriced ==
  Replied("GET /price/:assetId") =>
    IF reply.request.s \notin Assets THEN reply.status = 400
    ELSE /\ (reply.status = 404) <=> (reply.request.s \notin priced)
         /\ reply.status \in {200, 404}

\* C9: a reply of POST /price or POST /prices to a body that is an object with
\* an id carries that id as its jobRunID.
C9_JobRunIdEchoed ==
  (Replied("POST /price") \/ Replied("POST /prices")) =>
    (Get(reply.request, "id") # JUndefined
       => Get(reply.body, "jobRunID") = Get(reply.request, "id"))

\* C10 as stated: validateRequest accepts every success envelope and its payload
\* keeps the id; the statusCode of the envelope is the number 200.
C10_SuccessResponseValidates ==
  \A a \in Assets :
    getPrice(a) # Null =>
      LET response == buildSuccessResponse(RequestId, getPrice(a))
      IN /\ validateRequest(response) # Null
         /\ validateRequest(response).id = RequestId
         /\ Get(response, "statusCode") = JNumber(200)

\* C10: every success envelope carries the request id as jobRunID and the
\* number 200 as statusCode; it has no id field, so validateRequest answers
\* null for it.
C10_SuccessResponseEchoesId ==
  \A a \in Assets :
    getPrice(a) # Null =>
      LET response == buildSuccessResponse(RequestId, getPrice(a))
      IN /\ Get(response, "jobRunID") = RequestId
         /\ Get(response, "statusCode") = JNumber(200)
         /\ validateRequest(response) = Null

\* C10 witness: POST /price answered a request with the success envelope of
\* the stored record
C10_Witness ==
  /\ Replied("POST /price")
  /\ reply.status = 200
  /\ \E a \in Assets :
       /\ getPrice(a) # Null
       /\ reply.body = buildSuccessResponse(RequestId, getPrice(a))

\* previous prices and new median prices around the 0.5 % threshold
ChangePrices == {0, 995, 996, 1000, 1004, 1005}

\* the flag as C11 states it: no previous record, or |new - old| / old >= 0.005
\* (old = 0: the quotient is infinite when new > 0 and undefined when new = 0)
ChangedAsStated(previous, newPrice) ==
  \/ previous = Null
  \/ IF previous.price = 0 THEN newPrice # 0
     ELSE Abs(newPrice - previous.price) * 1000 >= 5 * previous.price

\* the flag with the two zero guards: a previous price of 0 counts as absent, and
\* a new median of 0 is never a change of a non-zero previous price
ChangedWithZeroGuards(previous, newPrice) ==
  \/ previous = Null
  \/ previous.price = 0
  \/ /\ newPrice # 0
     /\ Abs(newPrice - previous.price) * 1000 >= 5 * previous.price

\* C11 as stated: updatePrice reports changed exactly when the asset had no
\* previous price or |newPrice - oldPrice| / oldPrice >= 0.005.
C11_ChangedAsStated ==
  RoundDone =>
    (lastRound.changed <=> ChangedAsStated(lastRound.previous, lastRound.price.price))

\* C11: updatePrice reports changed exactly when the asset had no previous
\* record, or the previous price is 0, or the new median is not 0 and
\* |newPrice - oldPrice| / oldPrice >= 0.005; the same holds of
\* isPriceChangeSignificant on prices at both sides of the threshold.
C11_ChangedFlag ==
  /\ RoundDone =>
       (lastRound.changed
          <=> ChangedWithZeroGuards(lastRound.previous, lastRound.price.price))
  /\ \A old \in ChangePrices, new \in ChangePrices :
       isPriceChangeSignificant([price |-> old], new)
         <=> ChangedWithZeroGuards([price |-> old], new)

\* C11 witness: a round without observations after a round with a price
\* reported no change
C11_Witness ==
  /\ RoundDone
  /\ lastRound.previous # Null
  /\ lastRound.previous.price > 0
  /\ lastRound.price.price = 0
  /\ ~lastRound.changed

\* C12: without a history store, GET /prices/history and GET /rental/history
\* answer 503 with a body whose history is the empty list.
C12_HistoryUnavailable ==
  ((Replied("GET /prices/history") \/ Replied("GET /rental/history")) /\ ~supabase) =>
    /\ reply.status = 503
    /\ Get(reply.body, "history") = JArray(<<>>)

\* C13: a cache entry primed at t is what every request arriving while
\* now - t < CACHE_TTL_MS is answered from (cached: true, timestamp t, the same
\* prices, no call of the rental adapter), so no step replaces the entry while
\* it is fresh; a request arriving when the entry has expired calls the adapter.
C13_CachedWithinTtl ==
  [][/\ CacheFresh => rentalCache' = rentalCache
     /\ GetRentalPrices =>
          IF CacheFresh
          THEN /\ reply' = RentalPricesReply(rentalCache.data, rentalCache.timestamp, TRUE)
               /\ rentalFetches' = rentalFetches
          ELSE rentalFetches' = rentalFetches + 1]_vars

\* C14: of the GET /rental/prices requests that find the cache empty or
\* expired, at most one is fetching from the rental adapter at any time.
C14_SingleWriter == rentalFetches <= 1

\* C15: once the process has exited on a shutdown signal, both timers are
\* cancelled and no round is left unfinished: a tick body that was in flight
\* when the signal arrived has run to its end.
C15_GracefulShutdown ==
  mainPc = <<"exited", 0>> =>
    /\ ~hwTimer
    /\ ~rentalTimer
    /\ Total(hwTicks, Positions) = 0
    /\ rentalTicks["fetch"] + rentalTicks["store"] = 0

\* C16: while the initial hardware round or the initial rental fetch of main()
\* is still in progress, neither periodic timer is armed and no tick body of
\* either loop is in flight.
C16_InitialRunsBeforeTimers ==
  mainPc[1] \in {"initialFetch", "initialRental"} =>
    /\ ~hwTimer
    /\ ~rentalTimer
    /\ Total(hwTicks, Positions) = 0
    /\ rentalTicks["fetch"] + rentalTicks["store"] = 0


RECURSIVE SucceededPoints(_, _)
\* the observations returned by the adapters of the round that did not reject,
\* from adapter i on, in adapter order
SucceededPoints(r, i) ==
  IF i > Len(r) THEN <<>>
  ELSE (IF r[i].ok
        THEN [j \in 1..Len(r[i].prices) |-> [price |-> r[i].prices[j], source |-> adapters[i]]]
        ELSE <<>>)
       \o SucceededPoints(r, i + 1)

\* some adapter of the round rejected
SomeRejected == \E i \in 1..Len(lastRound.results) : ~lastRound.results[i].ok

\* C17: a round in which an adapter rejected still installs a record, and its
\* price, sources and sourceCount are the aggregate (outlier filter, median,
\* per-source collapse) of the observations returned by the adapters that
\* succeeded.
C17_RejectionIsEmptyList ==
  (RoundDone /\ SomeRejected) =>
    LET kept == filterOutliers(SucceededPoints(lastRound.results, 1))
        stored == getPrice(lastRound.assetId)
    IN /\ stored # Null
       /\ stored.price = (IF Len(kept) > 0 THEN median(PricesIn(kept)) ELSE 0)
       /\ stored.sources = SourceDetails(kept)
       /\ stored.sourceCount = Len(SourceDetails(kept))

\* C17 witness: a round in which the first adapter rejected and a later one
\* returned listings installed a priced record
C17_Witness ==
  /\ RoundDone
  /\ Len(lastRound.results) >= 2
  /\ ~lastRound.results[1].ok
  /\ \E i \in 2..Len(lastRound.results) :
       lastRound.results[i].ok /\ Len(lastRound.results[i].prices) > 0
  /\ getPrice(lastRound.assetId).price > 0
  /\ getPrice(lastRound.assetId).sourceCount > 0

\* the round was an updatePrice of the asset right after another one, and the
\* adapters gave both the same outputs
RepeatedRound ==
  /\ RoundDone
  /\ lastRound.previousResults = <<lastRound.results>>

\* C18: when updatePrice(a) runs twice in a row with identical adapter outputs,
\* the second record has the same price and the same sources list (names,
\* per-source prices, counts, in the same order) as the first.
C18_RepeatedRoundSamePrice ==
  RepeatedRound =>
    /\ lastRound.previous # Null
    /\ getPrice(lastRound.assetId).price = lastRound.previous.price
    /\ getPrice(lastRound.assetId).sources = lastRound.previous.sources
    /\ getPrice(lastRound.assetId).sourceCount = lastRound.previous.sourceCount

\* C18 witness: two rounds in a row with the same three listings, of which the
\* outlier filter keeps two, installed the same priced record twice
C18_Witness ==
  /\ RepeatedRound
  /\ lastRound.observed = 3
  /\ Len(lastRound.filtered) = 2
  /\ getPrice(lastRound.assetId).price > 0
  /\ getPrice(lastRound.assetId).sources # <<>>
  /\ ~lastRound.changed

\* the k-th smallest of the values (k from 1), by counting
Kth(values, k) ==
  CHOOSE x \in {values[i] : i \in 1..Len(values)} :
    /\ Cardinality({i \in 1..Len(values) : values[i] < x}) < k
    /\ k <= Cardinality({i \in 1..Len(values) : values[i] <= x})

\* twice the median of a non-empty list of values
TwiceMedian(values) ==
  IF Len(values) % 2 = 1 THEN 2 * Kth(values, (Len(values) + 1) \div 2)
  ELSE Kth(values, Len(values) \div 2) + Kth(values, Len(values) \div 2 + 1)

\* four times the median absolute deviation of a non-empty list of values
FourTimesMad(values) ==
  TwiceMedian([i \in 1..Len(values) |-> Abs(2 * values[i] - TwiceMedian(values))])

\* |x - m| / (1.4826 * d') <= 3, with m the median of the values, d their median
\* absolute deviation and d' = d if d > 0 else 0.01 * m, in whole numbers; the
\* quotient of a division by 0 is not <= 3
WithinThreeMads(x, values) ==
  IF FourTimesMad(values) > 0
  THEN Abs(2 * x - TwiceMedian(values)) * 20000 <= 3 * 14826 * FourTimesMad(values)
  ELSE /\ TwiceMedian(values) > 0
       /\ Abs(2 * x - TwiceMedian(values)) * 1000000 <= 3 * 14826 * TwiceMedian(values)

FilterOutliersCalled == call # Null /\ call.fn = "filterOutliers"

\* C19: filterOutliers returns its input unchanged when it has fewer than 3
\* observations; otherwise it returns, in input order, exactly the observations
\* x with |x - m| / (1.4826 * d') <= 3, where m is the median, d the median
\* absolute deviation and d' = d if d > 0 else 0.01 * m.
C19_FilterOutliersAsDefined ==
  FilterOutliersCalled =>
    IF Len(call.args) < 3 THEN call.result = call.args
    ELSE call.result =
           SelectSeq(call.args, LAMBDA p : WithinThreeMads(p.price, PricesIn(call.args)))

\* C19 witness: of four observations with a positive median absolute deviation
\* the filter dropped one and kept three, one of them off the median
C19_Witness ==
  /\ FilterOutliersCalled
  /\ Len(call.args) = 4
  /\ FourTimesMad(PricesIn(call.args)) > 0
  /\ Len(call.result) = 3
  /\ call.result[1].price # call.result[2].price

\* the observations of the list that are in the window at time t, in list order
InWindow(obs, t) == SelectSeq(obs, LAMBDA o : o.timestamp >= t - windowMs)

\* the price in force at time u: that of the last observation stamped at or
\* before u, the later of the list among those with one stamp
PriceInForce(w, u) ==
  LET at == {i \in 1..Len(w) : w[i].timestamp <= u}
      last == CHOOSE i \in at :
                \A j \in at : \/ w[j].timestamp < w[i].timestamp
                              \/ w[j].timestamp = w[i].timestamp /\ j <= i
  IN w[last].price

RECURSIVE PriceTimeFrom(_, _, _)
\* the sum of the prices in force over the clock units from u up to t
PriceTimeFrom(w, u, t) ==
  IF u >= t THEN 0 ELSE PriceInForce(w, u) + PriceTimeFrom(w, u + 1, t)

\* the earliest stamp of a non-empty list
FirstStamp(w) ==
  CHOOSE u \in {w[i].timestamp : i \in 1..Len(w)} : \A i \in 1..Len(w) : u <= w[i].timestamp

GetTWAPCalled == call # Null /\ call.fn = "getTWAP"

\* C20: getTWAP returns null when no observation is in the window, the price of
\* the observation when exactly one is, and otherwise the time-weighted average
\* of the observations sorted by timestamp, each price weighted by the time to
\* the next observation and the last one by the time to now; when the total
\* time is 0 it returns the price of the last observation.
C20_TwapAsDefined ==
  GetTWAPCalled =>
    LET t == call.args.now
        w == InWindow(call.args.obs, t)
    IN IF Len(w) = 0 THEN call.result = Null
       ELSE IF Len(w) = 1 THEN call.result = FracOfInt(w[1].price)
       ELSE IF t = FirstStamp(w) THEN call.result = FracOfInt(PriceInForce(w, t))
       ELSE call.result = Frac(PriceTimeFrom(w, FirstStamp(w), t), t - FirstStamp(w))

\* C20 witness: of three observations the first had left the window; the two
\* others, one clock unit apart and the later one clock unit old, gave the
\* average (10 * 1 + 13 * 1) / 2
C20_Witness ==
  /\ GetTWAPCalled
  /\ Len(call.args.obs) = 3
  /\ Len(InWindow(call.args.obs, call.args.now)) = 2
  /\ call.args.obs[1].timestamp < call.args.now - windowMs
  /\ call.result = [num |-> 23, den |-> 2]

\* every attempt of the search request of the call was answered 403 or 429
BlockedEveryAttempt ==
  /\ call # Null
  /\ call.fn = "fetchPrices"
  /\ call.args.homepage.t = "response"
  /\ \A k \in 1..maxRetries :
       call.args.outcomes[k].t = "response" /\ call.args.outcomes[k].status \in {403, 429}

\* C21: when the site answers 403 or 429 to every attempt of the search request,
\* fetchPrices of the scraping adapter throws an AdapterError whose code is
\* BLOCKED (or CAPTCHA), and returns no observations.
C21_BlockedIsReported ==
  BlockedEveryAttempt =>
    /\ call.result.t = "thrown"
    /\ call.result.error.code \in {"BLOCKED", "CAPTCHA"}

\* the last client.get that the call of fetchWithRetry made
FinalAttempt == call.args[call.result.attempts]

FetchWithRetryCalled == call # Null /\ call.fn = "fetchWithRetry"

\* C25: when the final attempt of fetchWithRetry received a response, whatever
\* its status, fetchWithRetry returns that response; it throws only when the
\* final attempt failed with a network error.
C25_FinalResponseReturned ==
  FetchWithRetryCalled =>
    /\ FinalAttempt.t = "response" =>
         call.result.t = "resolved" /\ call.result.value = FinalAttempt
    /\ call.result.t = "thrown" => FinalAttempt.t = "error"

\* C22: when searchOffers fell back to simulated offers, the GET /rental/prices
\* response that serves them carries a data-source marker (source = simulated)
\* that tells them from real prices.
C22_FallbackIsMarked ==
  [][RentalPricesFetchedFrom("simulated")
       => Get(reply'.body, "source") = JString("simulated")]_vars

SearchOffersCalled == call # Null /\ call.fn = "searchOffers"

\* C26: every offer returned by searchOffers, normalized from the marketplace
\* response or simulated, has gpuCount >= 1 and
\* pricePerGpuHour = pricePerHour / gpuCount.
C26_PerGpuPrice ==
  SearchOffersCalled =>
    \A i \in 1..Len(call.result) :
      /\ call.result[i].gpuCount >= 1
      /\ call.result[i].pricePerGpuHour.num * call.result[i].gpuCount
           = call.result[i].pricePerHour * call.result[i].pricePerGpuHour.den

\* the most recent step was an updatePrice transaction of the feed
PriceSubmitted == call # Null /\ call.fn = "updatePrice"

\* the round that was pending before the transaction
PendingBefore == call.before.latestRound + 1

\* the accounts among the submitters of a round
SubmitterSet(f, roundId) == {f.submitters[roundId][i] : i \in 1..Len(f.submitters[roundId])}

\* the prices counted for a round, one per submitter
CountedPrices(f, roundId) ==
  [i \in 1..Len(f.submitters[roundId]) |-> f.submissions[roundId][f.submitters[roundId][i]]]

\* the transaction finalized the pending round
Finalized == feed.latestRound # call.before.latestRound

\* C23: with n authorized oracles, updatePrice finalizes the pending round
\* exactly when the number of its distinct submitters reaches n \div 2 + 1, which
\* it never exceeds; until then latestRoundData is that of the previous round
\* (roundId 0 and answer 0 if none); an oracle submitting again is counted once;
\* on finalization the round id grows by exactly 1 and the answer is the median
\* of the prices counted.
C23_FinalizedAtMajority ==
  PriceSubmitted =>
    LET n == Len(call.before.oracles)
        counted == SubmitterSet(feed, PendingBefore)
    IN /\ Cardinality(counted) = Len(feed.submitters[PendingBefore])
       /\ counted = SubmitterSet(call.before, PendingBefore) \cup {call.sender}
       /\ Cardinality(SubmitterSet(call.before, PendingBefore)) < n \div 2 + 1
       /\ Finalized <=> Cardinality(counted) = n \div 2 + 1
       /\ ~Finalized => latestRoundData(feed) = latestRoundData(call.before)
       /\ call.before.latestRound = 0 =>
            latestRoundData(call.before) = [roundId |-> 0, answer |-> 0]
       /\ Finalized =>
            /\ latestRoundData(feed).roundId = latestRoundData(call.before).roundId + 1
            /\ latestRoundData(feed).answer
                 = TwiceMedian(CountedPrices(feed, PendingBefore)) \div 2

\* C23 witness: with three oracles, the second distinct submitter of round 2
\* finalized it with the mean of two different prices
C23_Witness ==
  /\ PriceSubmitted
  /\ Len(call.before.oracles) = 3
  /\ Finalized
  /\ feed.latestRound = 2
  /\ Len(feed.submitters[2]) = 2
  /\ latestRoundData(feed).answer = 11

\* every oracle of the constructor has submitted once, in turn, and no one else
EveryOracleSubmitted ==
  /\ feed # Null
  /\ feed.submitters[1] \o feed.submitters[2] = feed.oracles

\* the prices the oracles submitted, in the order of the oracles
AllSubmitted ==
  [i \in 1..Len(feed.oracles) |->
     IF i <= Len(feed.submitters[1]) THEN feed.submissions[1][feed.oracles[i]]
     ELSE feed.submissions[2][feed.oracles[i]]]

\* C24: once every one of the n oracles has submitted a price in turn to a feed
\* with no rounds, the answer of latestRoundData is the median of the n prices.
C24_MedianOfAll ==
  EveryOracleSubmitted =>
    latestRoundData(feed).answer = TwiceMedian(AllSubmitted) \div 2

\* C30: a round is finalized from the submissions of accounts that are
\* authorized oracles when it is finalized: an account removed while its
\* submission was pending is not among the submitters counted.
C30_OnlyAuthorizedCounted ==
  (PriceSubmitted /\ Finalized) => SubmitterSet(feed, PendingBefore) \subseteq feed.isOracle

\* C27: when updatePrice rounds of one asset overlap, a round whose fetch started
\* earlier never installs its record over that of a round whose fetch started
\* later.
C27_LaterStartWins ==
  [][\A k \in 1..MaxInFlight :
       (k <= Len(inFlight) /\ RoundFetchJoined(k)) => ~inFlight[k].overtaken]_vars

\* the observations of the list all have a positive price
AllPositive(points) == \A i \in 1..Len(points) : points[i].price > 0

\* C28: filterOutliers keeps at least one observation of a non-empty list of
\* positive prices, and a round that collected at least one observation
\* installs a record with price > 0 and sourceCount >= 1.
C28_SomethingIsKept ==
  /\ (FilterOutliersCalled /\ Len(call.args) > 0 /\ AllPositive(call.args))
       => Len(call.result) > 0
  /\ (RoundDone /\ lastRound.observed >= 1) =>
       /\ Len(lastRound.filtered) >= 1
       /\ getPrice(lastRound.assetId).price > 0
       /\ getPrice(lastRound.assetId).sourceCount >= 1

\* C28 witness: the filter, called on four positive prices of which two differ
\* from the median, has kept some, and then a round of three observations, one
\* of them filtered out, installed a priced record
C28_Witness ==
  /\ FilterOutliersCalled
  /\ Len(call.args) = 4
  /\ AllPositive(call.args)
  /\ Len(call.result) \in 1..3
  /\ RoundDone
  /\ lastRound.observed = 3
  /\ Len(lastRound.filtered) = 2
  /\ getPrice(lastRound.assetId).price > 0

\* the prices of the observations of a list
PriceSet(w) == {w[i].price : i \in 1..Len(w)}

\* C29: whenever getTWAP returns a number, it lies between the lowest and the
\* highest price of the observations held in the window, after any sequence of
\* addObservation calls and any advance of time.
C29_TwapWithinPrices ==
  (GetTWAPCalled /\ call.result # Null) =>
    LET w == InWindow(call.args.obs, call.args.now)
    IN /\ w # <<>>
       /\ \E lo \in PriceSet(w) : lo * call.result.den <= call.result.num
       /\ \E hi \in PriceSet(w) : call.result.num <= hi * call.result.den

\* C29 witness: getTWAP on a store of three observations, the oldest out of the
\* window, returned a number strictly between the two prices in the window
C29_Witness ==
  /\ GetTWAPCalled
  /\ Len(call.args.obs) = 3
  /\ Len(observations[ASSET_IDS[1]]) = 2
  /\ call.result = [num |-> 23, den |-> 2]
=============================================================================
